---- MODULE Spec2Model ----
(***************************************************************************)
(* Model of the hybrid natural-language parsing pipeline of the payment    *)
(* bot (src/nlp) and of the role handlers that route its intents           *)
(* (src/handlers) onto the ledger (src/db/database.py).                    *)
(*                                                                         *)
(* Texts and strings are sequences of lexemes.  A lexeme stands for one    *)
(* whitespace-delimited piece of a message; the names are ASCII            *)
(* transliterations of the Russian words the regular expressions of        *)
(* src/nlp/parser.py look for.  The lexeme " " is a run of whitespace with *)
(* nothing around it; between two other lexemes one blank is implied.      *)
(* Amounts are whole dollars, confidences are hundredths (0.7 is 70).      *)
(***************************************************************************)
EXTENDS Integers, Sequences, FiniteSets, TLC

(***************************************************************************)
(* Strings                                                                 *)
(***************************************************************************)
WS == " "

RECURSIVE LStrip(_)
LStrip(s) == IF s # <<>> /\ Head(s) = WS THEN LStrip(Tail(s)) ELSE s

RECURSIVE RStrip(_)
RStrip(s) ==
    IF s # <<>> /\ s[Len(s)] = WS THEN RStrip(SubSeq(s, 1, Len(s) - 1)) ELSE s

\* str.strip()
Strip(s) == RStrip(LStrip(s))

\* str.lower() on the lexemes that have an upper-case form
LowerSym(c) ==
    CASE c = "CRYPTO" -> "crypto"
      [] c = "FB" -> "fb"
      [] c = "Facebook Ads" -> "facebook ads"
      [] c = "Google Ads" -> "google ads"
      [] OTHER -> c

Lower(s) == [i \in 1..Len(s) |-> LowerSym(s[i])]

(***************************************************************************)
(* Lexemes of message texts (src/nlp/parser.py:18-56)                      *)
(***************************************************************************)
\* lexemes holding a Cyrillic "n" or "a", which [^na] refuses
HasNA(tok) ==
    tok \in {"na", "servisa", "oplata", "proekta", "kripto:", "kripto",
             "telefon:", "fail", "insta", "summa:", "adres:"}

NumberToks == {"0", "1", "2"}

\* float(amount_str) of the digits of a lexeme; "-1" is a minus sign with
\* the digit 1 behind it
NumVal(tok) ==
    CASE tok = "0" -> 0 [] tok \in {"1", "-1"} -> 1 [] tok = "2" -> 2 [] OTHER -> 0

\* number of characters of a lexeme that the method patterns count
CharLen(tok) ==
    CASE tok = "0xhex16" -> 18
      [] tok = "hex12" -> 12
      [] tok = "hex20" -> 20
      [] tok = "digits10" -> 10
      [] tok = "+phone" -> 11
      [] tok = "-1" -> 2
      [] tok \in NumberToks -> 1
      [] OTHER -> 0

\* the whole lexeme is in [0-9a-fA-FxX]
HexClass(tok) == tok \in {"0xhex16", "hex12", "hex20", "digits10"} \cup NumberToks

\* the whole lexeme is in [\+\d\-\(\)\s]
PhoneClass(tok) == tok \in {"+phone", "digits10", "-", "-1"} \cup NumberToks

NoneVal == [t |-> "none"]

\* least element of a non-empty set of naturals
MinOf(S) == CHOOSE m \in S : \A k \in S : m <= k

FirstIdx(S) == IF S = {} THEN 0 ELSE MinOf(S)

NotFound == [found |-> FALSE, value |-> <<>>]
Found(v) == [found |-> TRUE, value |-> v]

(***************************************************************************)
(* PaymentParser._extract_service_name                                     *)
(***************************************************************************)
\* index of the first lexeme at or after g that [^na]+? cannot take
FirstNA(t, g) ==
    LET S == {j \in g..Len(t) : HasNA(t[j])} IN IF S = {} THEN Len(t) + 1 ELSE MinOf(S)

\* ([^na]+?)(?=\s+na) starting at lexeme g; needSum adds \s+summu
GroupMatches(t, g, needSum) ==
    LET j == FirstNA(t, g) IN
    /\ g <= Len(t)
    /\ j > g
    /\ j <= Len(t)
    /\ t[j] = "na"
    /\ needSum => (j + 1 <= Len(t) /\ t[j + 1] = "summu")

GroupOf(t, g) == SubSeq(t, g, FirstNA(t, g) - 1)

\* start of the group for each of service_patterns, 0 when the trigger is not at i
ServiceGroupStart(p, t, i) ==
    CASE p = 1 -> IF t[i] \in {"servis", "servisa"} THEN i + 1 ELSE 0
      [] p = 2 -> IF t[i] \in {"oplata", "oplatu"} /\ i + 1 <= Len(t)
                     /\ t[i + 1] \in {"servis", "servisa"} THEN i + 2 ELSE 0
      [] p = 3 -> IF t[i] \in {"oplata", "oplatu"} THEN i + 1 ELSE 0
      [] OTHER -> IF t[i] \in {"dlya", "za"} THEN i + 1 ELSE 0

\* re.search(pattern, text): the leftmost position where the pattern matches
ServiceSearch(p, t) ==
    FirstIdx({i \in 1..Len(t) :
                 /\ ServiceGroupStart(p, t, i) # 0
                 /\ GroupMatches(t, ServiceGroupStart(p, t, i), p = 4)})

\* re.sub(r'^(oplata|nuzhna|trebuetsya)\s+', '', service)
StripFiller(s) ==
    IF Len(s) > 1 /\ s[1] \in {"oplata", "nuzhna", "trebuetsya"} THEN Tail(s) ELSE s

ServicePatterns == 1..4

extract_service_name(t) ==
    LET hit == {p \in ServicePatterns : ServiceSearch(p, t) # 0} IN
    IF hit = {} THEN NotFound
    ELSE LET p == MinOf(hit)
             g == ServiceGroupStart(p, t, ServiceSearch(p, t))
         IN Found(StripFiller(Strip(GroupOf(t, g))))

(***************************************************************************)
(* PaymentParser._extract_amount                                           *)
(***************************************************************************)
\* (\d+(?:[.,]\d+)?)\]?\s*[\$R] with the digits in lexeme k: the match may
\* begin inside the lexeme, behind a minus sign
NumCur(t, k) ==
    k + 1 <= Len(t) /\ t[k] \in NumberToks \cup {"-1"} /\ t[k + 1] = "$"

\* index of the digits when amount_patterns[p] matches at i, else 0; behind
\* a label the digits have to come first in their lexeme
AmountAt(p, t, i) ==
    CASE p = 1 -> IF t[i] = "na" /\ i + 2 <= Len(t) /\ t[i + 1] = "summu"
                     /\ t[i + 2] \in NumberToks /\ NumCur(t, i + 2) THEN i + 2
                  ELSE IF t[i] = "na" /\ i + 1 <= Len(t) /\ t[i + 1] \in NumberToks
                          /\ NumCur(t, i + 1) THEN i + 1 ELSE 0
      [] p = 2 -> IF NumCur(t, i) THEN i ELSE 0
      [] OTHER -> IF t[i] = "summa:" /\ i + 1 <= Len(t) /\ t[i + 1] \in NumberToks
                     /\ NumCur(t, i + 1) THEN i + 1 ELSE 0

AmountSearch(p, t) == FirstIdx({i \in 1..Len(t) : AmountAt(p, t, i) # 0})

AmountPatterns == 1..3

extract_amount(t) ==
    LET hit == {p \in AmountPatterns : AmountSearch(p, t) # 0} IN
    IF hit = {} THEN NotFound
    ELSE LET p == MinOf(hit) IN Found(NumVal(t[AmountAt(p, t, AmountSearch(p, t))]))

(***************************************************************************)
(* PaymentParser._extract_project_name                                     *)
(***************************************************************************)
\* end (exclusive) of ([^,]+?)(?=,|$) starting at lexeme g
CommaEnd(t, g) ==
    LET S == {j \in g..Len(t) : t[j] = ","} IN IF S = {} THEN Len(t) + 1 ELSE MinOf(S)

ProjectGroupStart(p, t, i) ==
    CASE p = 1 -> IF t[i] \in {"proekt", "proekta"} THEN i + 1 ELSE 0
      [] p = 2 -> IF t[i] \in {"proekt", "proekt:"} THEN i + 1 ELSE 0
      [] OTHER -> IF t[i] = "po" /\ i + 1 <= Len(t) /\ t[i + 1] = "proektu"
                  THEN i + 2 ELSE 0

ProjectSearch(p, t) ==
    FirstIdx({i \in 1..Len(t) :
                 LET g == ProjectGroupStart(p, t, i) IN
                 g # 0 /\ g <= Len(t) /\ CommaEnd(t, g) > g})

\* re.sub(r'^(dlya\s+)', '', project)
StripFor(s) == IF Len(s) > 1 /\ s[1] = "dlya" THEN Tail(s) ELSE s

ProjectPatterns == 1..3

extract_project_name(t) ==
    LET hit == {p \in ProjectPatterns : ProjectSearch(p, t) # 0} IN
    IF hit = {} THEN NotFound
    ELSE LET p == MinOf(hit)
             g == ProjectGroupStart(p, t, ProjectSearch(p, t))
         IN Found(StripFor(Strip(SubSeq(t, g, CommaEnd(t, g) - 1))))

(***************************************************************************)
(* PaymentParser._extract_payment_method                                   *)
(***************************************************************************)
\* label[:=\s]*([0-9a-fA-FxX]{10,}) at lexeme i
LabelledHexAt(labels, t, i) ==
    /\ t[i] \in labels
    /\ i + 1 <= Len(t)
    /\ HexClass(t[i + 1])
    /\ CharLen(t[i + 1]) >= 10

\* crypto_patterns[p] matches at i
CryptoAt(p, t, i) ==
    CASE p = 1 -> LabelledHexAt({"kripto:"}, t, i)
      [] p = 2 -> LabelledHexAt({"koshelek:"}, t, i)
      [] p = 3 -> LabelledHexAt({"adres:"}, t, i)
      [] p = 4 -> t[i] = "0xhex16"
      [] OTHER -> t[i] = "hex20"

CryptoSearch(p, t) == FirstIdx({i \in 1..Len(t) : CryptoAt(p, t, i)})

\* match.group(1) if match.groups() else match.group(0)
CryptoWallet(p, t) ==
    LET i == CryptoSearch(p, t) IN IF p \in 1..3 THEN <<t[i + 1]>> ELSE <<t[i]>>

\* end (inclusive) of the longest run of [\+\d\-\(\)\s] lexemes from g
RECURSIVE PhoneRunEnd(_, _)
PhoneRunEnd(t, g) ==
    IF g <= Len(t) /\ PhoneClass(t[g]) THEN PhoneRunEnd(t, g + 1) ELSE g - 1

RECURSIVE SumLen(_)
SumLen(s) == IF s = <<>> THEN 0 ELSE CharLen(Head(s)) + SumLen(Tail(s))

\* characters the class can take from g: the lexemes, the blank before each
\* of them and the blank after the run when the text goes on
PhoneRunChars(t, g) ==
    LET e == PhoneRunEnd(t, g) IN
    SumLen(SubSeq(t, g, e)) + (e - g + 1) + (IF e < Len(t) THEN 1 ELSE 0)

PhoneLabel(p) == CASE p = 1 -> {"telefon:"} [] p = 2 -> {"tel:"} [] OTHER -> {"mob:"}

\* label[:=\s]*([\+\d\-\(\)\s]{7,}) at lexeme i
PhoneAt(p, t, i) ==
    /\ t[i] \in PhoneLabel(p)
    /\ PhoneRunEnd(t, i + 1) >= i + 1
    /\ PhoneRunChars(t, i + 1) >= 7

PhoneSearch(p, t) == FirstIdx({i \in 1..Len(t) : PhoneAt(p, t, i)})

AccountLabel(p) ==
    CASE p = 1 -> {"schet:", "schet"}
      [] p = 2 -> {"karta:", "karta"}
      [] OTHER -> {"rekvizity:", "rekvizity"}

BareLabels == {"schet", "karta", "rekvizity"}

\* label[:=\s]*([^,]+?)(?=,|$) at lexeme i: with nothing up to the comma or
\* the end the group is the blank before the comma, or the colon of the label
AccountAt(p, t, i) ==
    /\ t[i] \in AccountLabel(p)
    /\ t[i] \in BareLabels => i < Len(t)

AccountSearch(p, t) == FirstIdx({i \in 1..Len(t) : AccountAt(p, t, i)})

AccountDetails(p, t) ==
    LET i == AccountSearch(p, t) IN
    IF i + 1 <= Len(t) /\ t[i + 1] # "," THEN SubSeq(t, i + 1, CommaEnd(t, i + 1) - 1)
    ELSE IF i = Len(t) THEN <<":">>
    ELSE <<>>

Contains(t, toks) == \E i \in 1..Len(t) : t[i] \in toks

NoMethod == [method |-> "none", details |-> <<>>]

\* the phone patterns tried before the crypto patterns
extract_payment_method_PhoneFirst(t) ==
    LET c == {p \in 1..5 : CryptoSearch(p, t) # 0}
        h == {p \in 1..3 : PhoneSearch(p, t) # 0}
    IN
    IF h # {} THEN
        LET i == PhoneSearch(MinOf(h), t) IN
        [method |-> "phone", details |-> SubSeq(t, i + 1, PhoneRunEnd(t, i + 1))]
    ELSE IF c # {} THEN [method |-> "crypto", details |-> CryptoWallet(MinOf(c), t)]
    ELSE NoMethod

extract_payment_method(t) ==
    LET c == {p \in 1..5 : CryptoSearch(p, t) # 0}
        h == {p \in 1..3 : PhoneSearch(p, t) # 0}
        a == {p \in 1..3 : AccountSearch(p, t) # 0}
    IN
    IF c # {} THEN [method |-> "crypto", details |-> CryptoWallet(MinOf(c), t)]
    ELSE IF h # {} THEN
        LET i == PhoneSearch(MinOf(h), t) IN
        [method |-> "phone", details |-> SubSeq(t, i + 1, PhoneRunEnd(t, i + 1))]
    ELSE IF a # {} THEN [method |-> "account", details |-> AccountDetails(MinOf(a), t)]
    ELSE IF Contains(t, {"kripto", "kripto:"}) THEN [method |-> "crypto", details |-> <<>>]
    ELSE IF Contains(t, {"telefon:", "telefon"}) THEN [method |-> "phone", details |-> <<>>]
    ELSE IF Contains(t, {"schet", "rekvizity", "karta"}) THEN
        [method |-> "account", details |-> <<>>]
    ELSE IF Contains(t, {"fail", "qr", "kod", "skan"}) THEN
        [method |-> "file", details |-> <<"Fail budet prikreplen">>]
    ELSE NoMethod

(***************************************************************************)
(* PaymentParser.parse_payment_message and validate_payment_data           *)
(***************************************************************************)
JNum(k) == [t |-> "num", n |-> k, s |-> <<>>]

PaymentIntent(sn, am, pn, pm, pd) ==
    [t |-> "payment", service_name |-> sn, amount |-> am, project_name |-> pn,
     payment_method |-> pm, payment_details |-> pd]

\* the parser without its check of the project name
RegexTryNoProjectCheck(t) ==
    LET service_name == extract_service_name(t)
        amount == extract_amount(t)
        project_name == extract_project_name(t)
        pm == extract_payment_method(t)
    IN
    IF ~service_name.found \/ service_name.value = <<>> THEN NoneVal
    ELSE IF ~amount.found \/ amount.value = 0 THEN NoneVal
    ELSE IF pm.method = "none" THEN NoneVal
    ELSE PaymentIntent(Strip(service_name.value), JNum(amount.value),
                       Strip(project_name.value), pm.method, Strip(pm.details))

\* the body of the try block of PaymentParser.parse_payment_message
RegexTry(t) ==
    LET service_name == extract_service_name(t)
        amount == extract_amount(t)
        project_name == extract_project_name(t)
        pm == extract_payment_method(t)
    IN
    IF ~service_name.found \/ service_name.value = <<>> THEN NoneVal
    ELSE IF ~amount.found \/ amount.value = 0 THEN NoneVal
    ELSE IF ~project_name.found \/ project_name.value = <<>> THEN NoneVal
    ELSE IF pm.method = "none" THEN NoneVal
    ELSE PaymentIntent(Strip(service_name.value), JNum(amount.value),
                       Strip(project_name.value), pm.method, Strip(pm.details))

ValidMethods == {"crypto", "phone", "account", "file"}

\* x < 0 in place of x <= 0
LeZeroStrict(v) == v.t = "num" /\ v.n < 0

\* x <= 0 in Python: False for NaN
LeZero(v) == v.t = "num" /\ v.n <= 0

validate_payment_data(d) ==
    /\ d.service_name # <<>>
    /\ ~(d.amount.t = "num" /\ d.amount.n = 0)
    /\ d.project_name # <<>>
    /\ d.payment_method # ""
    /\ ~LeZero(d.amount)
    /\ d.payment_method \in ValidMethods

(***************************************************************************)
(* Replies of the text-understanding service.  A JSON value is a record    *)
(* with its Python type t; "absent" is a key the object does not have.     *)
(* bool is left out: True and False behave as the numbers 1 and 0.         *)
(***************************************************************************)
JNull == [t |-> "null", n |-> 0, s |-> <<>>]
JAbsent == [t |-> "absent", n |-> 0, s |-> <<>>]
JNaN == [t |-> "nan", n |-> 0, s |-> <<>>]
JStr(str) == [t |-> "str", n |-> 0, s |-> str]

\* isinstance(v, (int, float))
IsNumber(v) == v.t \in {"num", "nan"}

\* data.get(key) is None / key not in data
IsMissing(v) == v.t \in {"absent", "null"}

\* bool(v) for the value of data.get(key)
Truthy(v) ==
    CASE v.t = "num" -> v.n # 0
      [] v.t = "nan" -> TRUE
      [] v.t = "str" -> v.s # <<>>
      [] OTHER -> FALSE

\* str(data.get(key, ""))
PyStr(v) ==
    CASE v.t = "absent" -> <<>>
      [] v.t = "null" -> <<"None">>
      [] v.t = "nan" -> <<"nan">>
      [] v.t = "num" -> <<ToString(v.n)>>
      [] OTHER -> v.s

Raise == [t |-> "raise"]

\* float(v) of a payload value that is not None: raises on a string that
\* is not a number
PyFloat(v) ==
    CASE v.t \in {"num", "nan"} -> v
      [] v.t = "str" /\ Strip(v.s) \in {<<"0">>, <<"1">>, <<"2">>} -> JNum(NumVal(Strip(v.s)[1]))
      [] v.t = "str" /\ Strip(v.s) = <<"nan">> -> JNaN
      [] OTHER -> Raise

\* no except clause: the exception goes on to the caller
CatchMissing(r) == r

\* except Exception: return None
Catch(r) == IF r.t = "raise" THEN NoneVal ELSE r

\* PaymentParser.parse_payment_message
RegexParse(text) == IF text = <<>> THEN NoneVal ELSE Catch(RegexTry(Strip(text)))

(***************************************************************************)
(* NLPPaymentParser (src/nlp/nlp_parser.py)                                *)
(***************************************************************************)
NlpValidate(data) ==
    /\ \A f \in {"service_name", "amount", "project_name", "payment_method"} :
          ~IsMissing(data[f])
    /\ data.service_name.t = "str" /\ Strip(data.service_name.s) # <<>>
    /\ IsNumber(data.amount) /\ ~LeZero(data.amount)
    /\ data.project_name.t = "str" /\ Strip(data.project_name.s) # <<>>
    /\ data.payment_method.t = "str"
    /\ \E m \in ValidMethods : data.payment_method.s = <<m>>

\* key in service_lower, for one lexeme of the lowered name
SymHas(c, key) ==
    \/ c = key
    \/ c = "facebook ads" /\ key = "facebook"
    \/ c = "instagram ads" /\ key \in {"instagram", "insta"}
    \/ c = "instagram" /\ key = "insta"

service_mappings ==
    << <<"facebook", "Facebook Ads">>, <<"feisbuk", "Facebook Ads">>,
       <<"fb", "Facebook Ads">>, <<"google ads", "Google Ads">>,
       <<"gugl", "Google Ads">>, <<"gugl ads", "Google Ads">>,
       <<"instagram", "Instagram Ads">>, <<"instagram_ru", "Instagram Ads">>,
       <<"insta", "Instagram Ads">>, <<"tiktok", "TikTok Ads">>,
       <<"tiktok_ru", "TikTok Ads">>, <<"youtube", "YouTube Ads">>,
       <<"youtube_ru", "YouTube Ads">> >>

MapService(name) ==
    LET low == Lower(name)
        hit == {k \in 1..Len(service_mappings) :
                   \E i \in 1..Len(low) : SymHas(low[i], service_mappings[k][1])}
    IN IF hit = {} THEN name ELSE <<service_mappings[MinOf(hit)][2]>>

NlpNormalize(data) ==
    PaymentIntent(MapService(Strip(data.service_name.s)),
                  PyFloat(data.amount),
                  Strip(data.project_name.s),
                  LowerSym(data.payment_method.s[1]),
                  Strip(PyStr(data.payment_details)))

\* the body of the try block, given what the service did
NlpTry(beh) ==
    CASE beh.kind \in {"error", "nocontent"} -> Raise
      [] beh.kind = "nonjson" -> NoneVal
      [] beh.kind = "nondict" -> NoneVal
      [] OTHER -> IF ~NlpValidate(beh.data) THEN NoneVal ELSE NlpNormalize(beh.data)

\* no text taken for blank: every text is sent to the service
BlankNever(text) == FALSE

\* the text is sent to the service only when it is not blank
Blank(text) == Strip(text) = <<>>

NlpParse(beh) == Catch(NlpTry(beh))

(***************************************************************************)
(* UniversalAIParser (src/nlp/universal_ai_parser.py)                      *)
(***************************************************************************)
\* the validation as it would be if it let through the two further tags
\* that handle_voice_message has arms for
ValidOperationsWithConfirm ==
    {"balance_add", "balance_reset", "payment_request", "analytics_query",
     "system_command", "unknown", "payment_confirm", "ai_analytics"}

ValidOperations ==
    {"balance_add", "balance_reset", "payment_request", "analytics_query",
     "system_command", "unknown"}

\* a string payload value equal to one of the given words
IsWord(v, words) == v.t = "str" /\ \E w \in words : v.s = <<w>>

UValidate(data) ==
    /\ data.operation_type.t # "absent"
    /\ data.confidence.t # "absent"
    /\ IsWord(data.operation_type, ValidOperations)
    /\ IsNumber(data.confidence)
    /\ ~(data.confidence.t = "num" /\ (data.confidence.n < 0 \/ data.confidence.n > 100))
    /\ IsWord(data.operation_type, {"balance_add", "payment_request"}) =>
          (IsMissing(data.amount) \/ (IsNumber(data.amount) /\ ~LeZero(data.amount)))

\* str(data.get(k, "")).strip() if data.get(k) else None
NormOpt(v) == IF Truthy(v) THEN JStr(Strip(PyStr(v))) ELSE JNull

OperationIntent(op, am, de, pl, pr, pm, pd, co) ==
    [t |-> "operation", operation_type |-> op, amount |-> am, description |-> de,
     platform |-> pl, project |-> pr, payment_method |-> pm,
     payment_details |-> pd, confidence |-> co]

UNormalize(data) ==
    LET amount == IF IsMissing(data.amount) THEN JNull ELSE PyFloat(data.amount) IN
    IF amount.t = "raise" THEN Raise
    ELSE OperationIntent(data.operation_type.s[1], amount,
                         Strip(PyStr(data.description)),
                         NormOpt(data.platform), NormOpt(data.project),
                         NormOpt(data.payment_method), NormOpt(data.payment_details),
                         PyFloat(data.confidence))

UTry(beh) ==
    CASE beh.kind \in {"error", "nocontent"} -> Raise
      [] beh.kind = "nonjson" -> NoneVal
      [] beh.kind = "nondict" -> NoneVal
      [] OTHER -> IF ~UValidate(beh.data) THEN NoneVal ELSE UNormalize(beh.data)

UniversalParse(beh) == Catch(UTry(beh))

(***************************************************************************)
(* CommandNLPParser (src/nlp/command_parser.py)                            *)
(***************************************************************************)
Roles == {"marketer", "financier", "manager"}

ValidCommands == {"start", "help", "balance", "stats"}

\* every role permitted for every command
check_command_permission_Any(command, user_role) == TRUE

check_command_permission(command, user_role) ==
    CASE command \in {"start", "help"} -> user_role \in {"marketer", "financier", "manager"}
      [] command = "balance" -> user_role \in {"financier", "manager"}
      [] command = "stats" -> user_role = "manager"
      [] OTHER -> FALSE

CommandThreshold == 50

\* confidence <= 0.5 in place of confidence < 0.5
ValidateCommandExclusive(data, user_role) ==
    LET confidence == IF data.confidence.t = "absent" THEN JNum(0) ELSE data.confidence IN
    IF data.command.t \in {"absent", "null"} THEN "false"
    ELSE IF ~IsWord(data.command, ValidCommands) THEN "false"
    ELSE IF user_role # "" /\ ~check_command_permission(data.command.s[1], user_role)
        THEN "false"
    ELSE IF ~IsNumber(confidence) THEN "raise"
    ELSE IF confidence.t = "num" /\ confidence.n <= CommandThreshold THEN "false"
    ELSE "true"

\* "true", "false" or "raise": confidence < 0.5 raises for a value that is
\* not a number; data.get("confidence", 0) is 0 for a missing key
ValidateCommand(data, user_role) ==
    LET confidence == IF data.confidence.t = "absent" THEN JNum(0) ELSE data.confidence IN
    IF data.command.t \in {"absent", "null"} THEN "false"
    ELSE IF ~IsWord(data.command, ValidCommands) THEN "false"
    ELSE IF user_role # "" /\ ~check_command_permission(data.command.s[1], user_role)
        THEN "false"
    ELSE IF ~IsNumber(confidence) THEN "raise"
    ELSE IF confidence.t = "num" /\ confidence.n < CommandThreshold THEN "false"
    ELSE "true"

CommandIntent(c, co) == [t |-> "command", command |-> c, confidence |-> co]

CTry(beh, user_role) ==
    CASE beh.kind \in {"error", "nocontent"} -> Raise
      [] beh.kind = "nonjson" -> NoneVal
      [] beh.kind = "nondict" -> NoneVal
      [] OTHER ->
          LET v == ValidateCommand(beh.data, user_role) IN
          IF v = "raise" THEN Raise
          ELSE IF v = "false" THEN NoneVal
          ELSE CommandIntent(beh.data.command.s[1], beh.data.confidence)

CommandParse(beh, user_role) == Catch(CTry(beh, user_role))

(***************************************************************************)
(* Inputs: message texts and service replies                               *)
(***************************************************************************)
ServiceParts ==
    { <<>>, <<"oplata", "servisa", "Google">>, <<"servisa", "insta">>,
      <<"oplata", "Google">>, <<"servisa", "trebuetsya", "Google">> }

\* the last two sets hold an amount with a label (na summu, na, summa:) and
\* one without, in either order
AmountParts ==
    LET labelled == { <<"na", "summu", "1", "$">>, <<"na", "1", "$">>,
                      <<"summa:", "1", "$">> }
    IN { <<>>, <<"na", "summu", "1", "$">>, <<"na", "2", "$">>, <<"na", "0", "$">>,
         <<"na", "summu", "1">>, <<"na", "-1", "$">>, <<"na", "summu", "-1", "$">> }
          \cup {l \o <<",", "2", "$">> : l \in labelled}
          \cup {<<"2", "$", ",">> \o l : l \in labelled}

ProjectParts ==
    { <<>>, <<"dlya", "proekta", "Alpha">>, <<"proekt:", "Alpha">>, <<"dlya", "proekta">> }

MethodParts ==
    { <<>>, <<",", "kripto:", "0xhex16">>, <<",", "telefon:", "+phone">>,
      <<",", "schet:", "digits10">>, <<",", "fail">>, <<"kripto:", "hex12">> }

PaymentTexts ==
    {a \o b \o c \o d : a \in ServiceParts, b \in AmountParts,
                        c \in ProjectParts, d \in MethodParts}

\* the payment texts, texts with a wallet and a phone number in either
\* order, and texts that are no payment
Texts ==
    LET wallets == { <<"kripto:", "hex12">>, <<"koshelek:", "hex12">>, <<"0xhex16">>,
                     <<"hex20">>, <<"hex12">> }
        phones == { <<"telefon:", "+phone">>, <<"tel:", "digits10">>, <<"+phone">> }
        request == <<"oplata", "servisa", "Google", "na", "summu", "1", "$", "dlya",
                     "proekta", "Alpha", ",">>
    IN PaymentTexts
          \cup {request \o w \o <<",">> \o h : w \in wallets, h \in phones}
          \cup {request \o h \o <<",">> \o w : w \in wallets, h \in phones}
          \cup {<<WS>>, <<WS, "obnuli", "balans">>}

\* texts for the entry points that only look at whether the text is blank
ShortTexts == {<<>>, <<WS>>, <<"obnuli", "balans">>}

\* texts given to the hybrid parser
HybridTexts ==
    {a \o b \o c \o d :
        a \in {<<>>, <<"oplata", "servisa", "Google">>},
        b \in {<<>>, <<"na", "summu", "1", "$">>, <<"na", "0", "$">>},
        c \in {<<>>, <<"dlya", "proekta", "Alpha">>},
        d \in {<<>>, <<",", "kripto:", "0xhex16">>, <<",", "fail">>}}
      \cup {<<WS>>}

NonObject == [service_name |-> JAbsent, amount |-> JAbsent, project_name |-> JAbsent,
              payment_method |-> JAbsent, payment_details |-> JAbsent]

\* what the service can do besides returning a JSON object: raise, return
\* no content, return text that is not JSON, return JSON that is no object
FailureKinds == {"error", "nocontent", "nonjson", "nondict"}

PaymentPayloads ==
    [service_name : {JAbsent, JNull, JNum(1), JStr(<<WS>>), JStr(<<"fb">>),
                     JStr(<<WS, "Canva">>)},
     amount : {JAbsent, JNull, JStr(<<"1">>), JNaN, JNum(-1), JNum(0), JNum(1)},
     project_name : {JNull, JStr(<<WS>>), JStr(<<"Alpha", WS>>)},
     payment_method : {JAbsent, JStr(<<"crypto">>), JStr(<<"CRYPTO">>),
                       JStr(<<"card">>), JStr(<<"file">>)},
     payment_details : {JAbsent, JNull, JStr(<<"0xhex16">>)}]

PaymentReplies ==
    {[kind |-> k, data |-> NonObject] : k \in FailureKinds}
        \cup {[kind |-> "dict", data |-> d] : d \in PaymentPayloads}

NoOperation ==
    [operation_type |-> JAbsent, confidence |-> JAbsent, amount |-> JAbsent,
     description |-> JAbsent, platform |-> JAbsent, project |-> JAbsent,
     payment_method |-> JAbsent, payment_details |-> JAbsent]

OperationWords == ValidOperations \cup {"payment_confirm"}

OperationPayloads ==
    [operation_type : {JAbsent} \cup {JStr(<<w>>) : w \in OperationWords},
     confidence : {JAbsent, JNull, JNaN, JNum(-1), JNum(0), JNum(69), JNum(70), JNum(101)},
     amount : {JAbsent, JNull, JStr(<<"x">>), JStr(<<"1">>), JNaN, JNum(-1), JNum(0),
               JNum(1)},
     description : {JAbsent, JNull, JStr(<<"balans", WS>>)},
     platform : {JAbsent, JNull, JStr(<<WS>>), JStr(<<WS, "Insta">>), JNum(0)},
     project : {JAbsent, JStr(<<"Alpha">>)},
     payment_method : {JNull, JStr(<<"crypto">>)},
     payment_details : {JAbsent, JStr(<<WS>>)}]

OperationReplies ==
    {[kind |-> k, data |-> NoOperation] : k \in FailureKinds}
        \cup {[kind |-> "dict", data |-> d] : d \in OperationPayloads}

NoCommand == [command |-> JAbsent, confidence |-> JAbsent]

CommandPayloads ==
    [command : {JAbsent, JNull, JNum(1), JStr(<<"dashboard">>)}
                  \cup {JStr(<<w>>) : w \in ValidCommands},
     confidence : {JAbsent, JNull, JStr(<<"high">>), JNaN, JNum(0), JNum(49), JNum(50),
                   JNum(100), JNum(500)}]

CommandReplies ==
    {[kind |-> k, data |-> NoCommand] : k \in FailureKinds}
        \cup {[kind |-> "dict", data |-> d] : d \in CommandPayloads}

NoReply == [kind |-> "none", data |-> NoCommand]

(***************************************************************************)
(* State                                                                   *)
(***************************************************************************)
VARIABLES
    entry,          \* the parse entry point that is running, "none" when idle
    ppc,            \* where the running parse stands
    ptext,          \* its text argument
    prole,          \* its user_role argument, "" when there is none
    regex_result,   \* regex_result of HybridPaymentParser.parse_payment_message
    pres,           \* what the entry point returned (or raised)
    calls,          \* requests sent to the service by the running parse
    reply,          \* the last answer of the service to the running parse
    msg,            \* the message being handled: sender's role, kind, text
    hpc,            \* where the handler of msg stands
    router_result,  \* what smart_message_router returned for msg
    cmd_reply,      \* the service's answer to the router's parse of msg
    intent,         \* parsed_data / command_data / payment_data of the handler
    branch,         \* the arm of the handler that ran for msg
    answers,        \* the replies sent to the sender of msg
    extcalls,       \* requests to the service by the finished calls for msg
    balance,        \* balance.current_balance
    history,        \* rows of transactions and balance_history
    payments,       \* rows of payments, by id
    nmsg,           \* messages delivered so far
    tasks           \* payment_confirmation_handler executions running at once

parseVars == <<entry, ppc, ptext, prole, regex_result, pres, calls, reply>>

ledgerVars == <<balance, history, payments>>

handlerVars == <<msg, hpc, router_result, cmd_reply, intent, branch, answers, extcalls, nmsg>>

botVars == <<handlerVars, ledgerVars, tasks>>

vars == <<parseVars, botVars>>

ParseIdle ==
    /\ entry = "none"
    /\ ppc = "idle"
    /\ ptext = <<>>
    /\ prole = ""
    /\ regex_result = NoneVal
    /\ pres = NoneVal
    /\ calls = 0
    /\ reply = NoReply

\* the caller has taken the result
ResetParse ==
    /\ entry' = "none"
    /\ ppc' = "idle"
    /\ ptext' = <<>>
    /\ prole' = ""
    /\ regex_result' = NoneVal
    /\ pres' = NoneVal
    /\ calls' = 0
    /\ reply' = NoReply

\* a caller starts entry point e
StartParse(e, text, role) ==
    /\ entry' = e
    /\ ppc' = "start"
    /\ ptext' = text
    /\ prole' = role
    /\ regex_result' = NoneVal
    /\ pres' = NoneVal
    /\ calls' = 0
    /\ reply' = NoReply

Return(r) ==
    /\ pres' = r
    /\ ppc' = "ret"

NoMsg == [role |-> "none", kind |-> "none", text |-> <<>>, pid |-> 0, file_size |-> 0]

MaxTasks == 2

\* the executions of payment_confirmation_handler that aiogram runs as
\* tasks of one event loop
Tasks == 1..MaxTasks

\* a task that handles no message; payment is the row get_payment returned
NoTask == [pc |-> "idle", payment_id |-> 0, payment |-> [status |-> "none", amount |-> 0]]

\* no message is being handled; the database as init_database leaves it
BotIdle ==
    /\ msg = NoMsg
    /\ hpc = "idle"
    /\ router_result = "none"
    /\ cmd_reply = NoReply
    /\ intent = NoneVal
    /\ branch = "none"
    /\ answers = <<>>
    /\ extcalls = 0
    /\ balance = 0
    /\ history = <<>>
    /\ payments = <<>>
    /\ nmsg = 0
    /\ tasks = [k \in Tasks |-> NoTask]

(***************************************************************************)
(* PaymentParser.parse_payment_message called on its own                   *)
(***************************************************************************)
RegexEnter ==
    /\ entry = "regex" /\ ppc = "start"
    /\ regex_result' = RegexParse(ptext)
    /\ Return(RegexParse(ptext))
    /\ UNCHANGED <<entry, ptext, prole, calls, reply>>
    /\ UNCHANGED botVars

(***************************************************************************)
(* HybridPaymentParser.parse_payment_message                               *)
(***************************************************************************)
\* lines 31-46: the blank check, then the regex parser inside try/except
HybridEnter ==
    /\ entry = "hybrid" /\ ppc = "start"
    /\ IF ~(ptext # <<>> /\ Strip(ptext) # <<>>)
       THEN Return(NoneVal) /\ UNCHANGED regex_result
       ELSE /\ regex_result' = Catch(RegexParse(Strip(ptext)))
            /\ ppc' = "regex_done"
            /\ UNCHANGED pres
    /\ UNCHANGED <<entry, ptext, prole, calls, reply>>
    /\ UNCHANGED botVars

\* the hybrid parser asking the service whatever the regex parser found
HybridDecideAlwaysNlp ==
    /\ entry = "hybrid" /\ ppc = "regex_done"
    /\ calls' = calls + 1
    /\ ppc' = "await_nlp"
    /\ UNCHANGED <<entry, ptext, prole, regex_result, reply, pres>>
    /\ UNCHANGED botVars

\* lines 40-50: return the regex result when it validates, else go on to
\* NLPPaymentParser.parse_payment_message, which sends the text
HybridDecide ==
    /\ entry = "hybrid" /\ ppc = "regex_done"
    /\ IF regex_result.t = "payment" /\ validate_payment_data(regex_result)
       THEN Return(regex_result) /\ UNCHANGED calls
       ELSE IF Blank(Strip(ptext))
       THEN Return(NoneVal) /\ UNCHANGED calls
       ELSE /\ calls' = calls + 1
            /\ ppc' = "await_nlp"
            /\ UNCHANGED pres
    /\ UNCHANGED <<entry, ptext, prole, regex_result, reply>>
    /\ UNCHANGED botVars

\* the hybrid parser sending the text once more after a failed answer
HybridNlpAnswerRetry(beh) ==
    /\ entry = "hybrid" /\ ppc = "await_nlp"
    /\ reply' = beh
    /\ IF NlpParse(beh).t = "none" /\ calls < 2
       THEN calls' = calls + 1 /\ UNCHANGED <<pres, ppc>>
       ELSE Return(Catch(NlpParse(beh))) /\ UNCHANGED calls
    /\ UNCHANGED <<entry, ptext, prole, regex_result>>
    /\ UNCHANGED botVars

\* lines 50-60 and nlp_parser.py:79-103: the service answers beh
HybridNlpAnswer(beh) ==
    /\ entry = "hybrid" /\ ppc = "await_nlp"
    /\ reply' = beh
    /\ Return(Catch(NlpParse(beh)))
    /\ UNCHANGED <<entry, ptext, prole, regex_result, calls>>
    /\ UNCHANGED botVars

HybridNlpReply ==
    /\ entry = "hybrid" /\ ppc = "await_nlp"
    /\ \E beh \in PaymentReplies : HybridNlpAnswer(beh)

(***************************************************************************)
(* UniversalAIParser.parse_message                                         *)
(***************************************************************************)
UniversalEnter ==
    /\ entry = "universal" /\ ppc = "start"
    /\ IF Blank(ptext)
       THEN Return(NoneVal) /\ UNCHANGED calls
       ELSE /\ calls' = calls + 1
            /\ ppc' = "await_ai"
            /\ UNCHANGED pres
    /\ UNCHANGED <<entry, ptext, prole, regex_result, reply>>
    /\ UNCHANGED botVars

\* lines 140-184: the service answers beh
UniversalAnswer(beh) ==
    /\ entry = "universal" /\ ppc = "await_ai"
    /\ reply' = beh
    /\ Return(UniversalParse(beh))
    /\ UNCHANGED <<entry, ptext, prole, regex_result, calls>>
    /\ UNCHANGED botVars

UniversalReply ==
    /\ entry = "universal" /\ ppc = "await_ai"
    /\ \E beh \in OperationReplies : UniversalAnswer(beh)

(***************************************************************************)
(* CommandNLPParser.parse_command                                          *)
(***************************************************************************)
CommandEnter ==
    /\ entry = "command" /\ ppc = "start"
    /\ IF Blank(ptext)
       THEN Return(NoneVal) /\ UNCHANGED calls
       ELSE /\ calls' = calls + 1
            /\ ppc' = "await_cmd"
            /\ UNCHANGED pres
    /\ UNCHANGED <<entry, ptext, prole, regex_result, reply>>
    /\ UNCHANGED botVars

\* lines 72-105: the service answers beh
CommandAnswer(beh) ==
    /\ entry = "command" /\ ppc = "await_cmd"
    /\ reply' = beh
    /\ Return(CommandParse(beh, prole))
    /\ UNCHANGED <<entry, ptext, prole, regex_result, calls>>
    /\ UNCHANGED botVars

CommandReply ==
    /\ entry = "command" /\ ppc = "await_cmd"
    /\ \E beh \in CommandReplies : CommandAnswer(beh)

(***************************************************************************)
(* The entry points called directly, on every text, role and reply         *)
(***************************************************************************)
Invoke ==
    /\ ppc = "idle"
    /\ UNCHANGED botVars
    /\ \/ \E text \in Texts \cup {<<>>} : StartParse("regex", text, "")
       \/ \E text \in HybridTexts \cup {<<>>} : StartParse("hybrid", text, "")
       \/ \E text \in ShortTexts, role \in Roles : StartParse("universal", text, role)
       \/ \E text \in ShortTexts, role \in Roles \cup {""} :
             StartParse("command", text, role)

Finish ==
    /\ ppc = "ret"
    /\ ResetParse
    /\ UNCHANGED botVars

InitParse == ParseIdle /\ BotIdle

NextParse ==
    \/ Invoke
    \/ RegexEnter
    \/ HybridEnter
    \/ HybridDecide
    \/ HybridNlpReply
    \/ UniversalEnter
    \/ UniversalReply
    \/ CommandEnter
    \/ CommandReply
    \/ Finish

SpecParse == InitParse /\ [][NextParse]_vars

(***************************************************************************)
(* The ledger (src/db/database.py)                                         *)
(***************************************************************************)
\* from_user.id of the one user of each role; 0 is the id the ledger
\* writes for its own rows
UserId(role) ==
    CASE role = "marketer" -> 1
      [] role = "financier" -> 2
      [] role = "manager" -> 3
      [] OTHER -> 4

HistoryRow(ty, am, user, pid) ==
    [transaction_type |-> ty, amount |-> am, user_id |-> user, payment_id |-> pid]

\* BalanceDB.add_balance raises: ValueError for amount <= 0, and the
\* NOT NULL constraint of transactions.amount for NaN, which is bound as NULL
AddBalanceRaises(amount) == LeZero(amount) \/ amount.t # "num"

\* BalanceDB.add_balance when it does not raise
add_balance(amount, user_id) ==
    /\ balance' = balance + amount.n
    /\ history' = Append(history, HistoryRow("income", amount.n, user_id, -1))

\* BalanceDB.subtract_balance raises ValueError
SubtractRaises(amount, payment_id) == amount <= 0 \/ payment_id < 0

\* BalanceDB.subtract_balance when it does not raise: the balance is not
\* compared with the amount
subtract_balance(amount, payment_id) ==
    /\ balance' = balance - amount
    /\ history' = Append(history, HistoryRow("expense", amount, 0, payment_id))

PaymentRow(am, sn, pn, pm) ==
    [status |-> "pending", amount |-> am, service_name |-> sn, project_name |-> pn,
     payment_method |-> pm]

\* PaymentDB.create_payment: "value_error" for what it validates, "error"
\* for the NOT NULL constraint of payments.amount on NaN, else "ok"
CreateOutcome(amount, service_name, project_name) ==
    IF LeZero(amount) THEN "value_error"
    ELSE IF Strip(service_name) = <<>> THEN "value_error"
    ELSE IF Strip(project_name) = <<>> THEN "value_error"
    ELSE IF amount.t # "num" THEN "error"
    ELSE "ok"

create_payment(amount, service_name, project_name, payment_method) ==
    payments' = Append(payments, PaymentRow(amount.n, service_name, project_name,
                                            payment_method))

\* PaymentDB.update_payment_status
update_payment_status(payment_id, status) ==
    payments' = [payments EXCEPT ![payment_id].status = status]

(***************************************************************************)
(* Messages and the replies of the service while the bot runs              *)
(***************************************************************************)
MaxMsgs == 3

AllRoles == Roles \cup {"unknown"}

PaymentText ==
    <<"oplata", "servisa", "Google", "na", "summu", "1", "$", "dlya", "proekta",
      "Alpha", ",", "kripto:", "0xhex16">>

FreeText == <<"obnuli", "balans">>

BotTexts == {PaymentText, FreeText}

Transcriptions == {<<WS>>, FreeText, <<"svodka">>}

CommandPayload(c, co) == [command |-> c, confidence |-> co]

BotCommandReplies ==
    {[kind |-> "error", data |-> NoCommand]}
        \cup {[kind |-> "dict", data |-> CommandPayload(c, co)] :
                 c \in {JAbsent, JStr(<<"help">>), JStr(<<"balance">>), JStr(<<"stats">>)},
                 co \in {JNum(49), JNum(50)}}

OperationPayload(op, co, am) ==
    [operation_type |-> op, confidence |-> co, amount |-> am,
     description |-> JStr(<<"balans">>), platform |-> JStr(<<"Insta">>),
     project |-> JAbsent, payment_method |-> JNull, payment_details |-> JAbsent]

BotOperationReplies ==
    {[kind |-> "error", data |-> NoOperation]}
        \cup {[kind |-> "dict", data |-> OperationPayload(JStr(<<op>>), co, am)] :
                 op \in OperationWords \cup {"ai_analytics"},
                 co \in {JNum(69), JNum(70), JNaN},
                 am \in {JNull, JNum(1), JNum(2), JNaN}}
        \cup {[kind |-> "dict",
               data |-> [OperationPayload(JStr(<<op>>), JNum(70), JNull)
                            EXCEPT !.description = JAbsent]] :
                 op \in {"analytics_query", "system_command"}}

BotPaymentReplies ==
    {[kind |-> "error", data |-> NonObject]}
        \cup {[kind |-> "dict",
               data |-> [service_name |-> JStr(<<"fb">>), amount |-> am,
                         project_name |-> JStr(<<"Alpha">>),
                         payment_method |-> JStr(<<"crypto">>),
                         payment_details |-> JNull]] : am \in {JNum(2), JNaN}}

BotHybridNlpReply ==
    /\ hpc # "idle"
    /\ entry = "hybrid" /\ ppc = "await_nlp"
    /\ \E beh \in BotPaymentReplies : HybridNlpAnswer(beh)

BotUniversalReply ==
    /\ hpc # "idle"
    /\ entry = "universal" /\ ppc = "await_ai"
    /\ \E beh \in BotOperationReplies : UniversalAnswer(beh)

BotCommandReply ==
    /\ hpc # "idle"
    /\ entry = "command" /\ ppc = "await_cmd"
    /\ \E beh \in BotCommandReplies : CommandAnswer(beh)

(***************************************************************************)
(* Handlers: what they share                                               *)
(***************************************************************************)
\* the handler returns after arm b, having sent the replies in sent
End(b, sent) ==
    /\ hpc' = "done"
    /\ branch' = b
    /\ answers' = answers \o sent

\* requests sent to the service for msg so far
ExtCalls == extcalls + calls

OperationThreshold == 70

\* confidence <= 0.7 in place of confidence < 0.7
LowConfidenceInclusive(confidence) ==
    confidence.t = "num" /\ confidence.n <= OperationThreshold

\* confidence < 0.7 (manager.py:251, voice_handler.py:376): False for NaN
LowConfidence(confidence) ==
    confidence.t = "num" /\ confidence.n < OperationThreshold

\* manager.process_balance_add, after the replies in pre
process_balance_add(parsed_data, pre) ==
    IF ~Truthy(parsed_data.amount) \/ LeZero(parsed_data.amount)
    THEN End("balance_add", pre \o <<"amount_error">>) /\ UNCHANGED ledgerVars
    ELSE IF AddBalanceRaises(parsed_data.amount)
    THEN End("balance_add", pre \o <<"balance_add_error">>) /\ UNCHANGED ledgerVars
    ELSE /\ add_balance(parsed_data.amount, UserId(msg.role))
         /\ UNCHANGED payments
         /\ End("balance_add", pre \o <<"balance_added">>)

\* manager.reset_balance_handler with manager.reset_balance_to_zero: the
\* whole balance is subtracted, which raises when the balance is negative
reset_balance_handler(pre) ==
    IF msg.role # "manager"
    THEN End("balance_reset", pre) /\ UNCHANGED ledgerVars
    ELSE IF balance = 0
    THEN End("balance_reset", pre \o <<"balance_reset">>) /\ UNCHANGED ledgerVars
    ELSE IF SubtractRaises(balance, 0)
    THEN End("balance_reset", pre \o <<"reset_error">>) /\ UNCHANGED ledgerVars
    ELSE /\ subtract_balance(balance, 0)
         /\ UNCHANGED payments
         /\ End("balance_reset", pre \o <<"balance_reset">>)

(***************************************************************************)
(* smart_message_router and nlp_command_handler                            *)
(* (src/handlers/nlp_command_handler.py)                                   *)
(***************************************************************************)
\* a text that is no slash command arrives from a marketer or a manager:
\* the handler registered for the role passes its role check and calls
\* smart_message_router, which parses the text as a command
ReceiveText ==
    /\ hpc = "idle" /\ nmsg < MaxMsgs
    /\ \E role \in {"marketer", "manager"}, text \in BotTexts :
          /\ msg' = [role |-> role, kind |-> "text", text |-> text, pid |-> 0,
                     file_size |-> 0]
          /\ StartParse("command", text, role)
    /\ hpc' = "router"
    /\ nmsg' = nmsg + 1
    /\ UNCHANGED <<router_result, cmd_reply, intent, branch, answers, extcalls>>
    /\ UNCHANGED ledgerVars
    /\ UNCHANGED tasks

\* a financier's text "oplacheno <id>": payment_confirmation_handler calls
\* the router first as well
ReceiveConfirm ==
    /\ hpc = "idle" /\ nmsg < MaxMsgs
    /\ \E pid \in 1..MaxMsgs :
          /\ msg' = [role |-> "financier", kind |-> "confirm",
                     text |-> <<"oplacheno", ToString(pid)>>, pid |-> pid,
                     file_size |-> 0]
          /\ StartParse("command", <<"oplacheno", ToString(pid)>>, "financier")
    /\ hpc' = "router"
    /\ nmsg' = nmsg + 1
    /\ UNCHANGED <<router_result, cmd_reply, intent, branch, answers, extcalls>>
    /\ UNCHANGED ledgerVars
    /\ UNCHANGED tasks

\* lines 106-110: command_data is truthy, nlp_command_handler is called and
\* parses the same text again
RouterCommand ==
    /\ hpc = "router" /\ ppc = "ret"
    /\ pres.t = "command"
    /\ cmd_reply' = reply
    /\ extcalls' = extcalls + calls
    /\ StartParse("command", msg.text, msg.role)
    /\ hpc' = "nlp_command"
    /\ UNCHANGED <<msg, router_result, intent, branch, answers, nmsg>>
    /\ UNCHANGED ledgerVars
    /\ UNCHANGED tasks

\* lines 112-113: no command, the router returns False and the role's
\* handler goes on with its own parser
RouterFalse ==
    /\ hpc = "router" /\ ppc = "ret"
    /\ pres.t # "command"
    /\ router_result' = "false"
    /\ cmd_reply' = reply
    /\ extcalls' = extcalls + calls
    /\ CASE msg.role = "manager" ->
              StartParse("universal", msg.text, "manager") /\ hpc' = "operation"
         [] msg.role = "marketer" ->
              StartParse("hybrid", msg.text, "") /\ hpc' = "payment"
         [] OTHER -> ResetParse /\ hpc' = "confirm"
    /\ UNCHANGED <<msg, intent, branch, answers, nmsg>>
    /\ UNCHANGED ledgerVars
    /\ UNCHANGED tasks

\* nlp_command_handler lines 38-84 with the result of its own parse; the
\* router then returns True
NlpCommandDispatch ==
    /\ hpc = "nlp_command" /\ ppc = "ret"
    /\ router_result' = "true"
    /\ intent' = pres
    /\ IF pres.t # "command" THEN End("none", <<>>)
       ELSE CASE pres.command = "start" -> End("start", <<"start">>)
              [] pres.command = "help" -> End("help", <<"help">>)
              [] pres.command = "balance" ->
                   IF msg.role = "manager" THEN End("balance", <<"statistics">>)
                   ELSE IF msg.role = "financier" THEN End("balance", <<"balance">>)
                   ELSE End("balance", <<"no_access_balance">>)
              [] pres.command = "stats" ->
                   IF msg.role = "manager" THEN End("stats", <<"statistics">>)
                   ELSE End("stats", <<"no_access_stats">>)
              [] OTHER -> End("none", <<>>)
    /\ UNCHANGED <<msg, cmd_reply, extcalls, nmsg>>
    /\ UNCHANGED ledgerVars
    /\ UNCHANGED parseVars
    /\ UNCHANGED tasks

(***************************************************************************)
(* add_balance_handler (src/handlers/manager.py)                           *)
(***************************************************************************)
\* lines 254-265: the arm of operation_type
ManagerDispatch(parsed_data, pre) ==
    CASE parsed_data.operation_type = "balance_add" ->
             process_balance_add(parsed_data, pre)
      [] parsed_data.operation_type = "balance_reset" ->
             reset_balance_handler(pre)
      [] parsed_data.operation_type = "analytics_query" ->
             End("analytics_query", pre \o <<"analytics">>) /\ UNCHANGED ledgerVars
      [] parsed_data.operation_type = "system_command" ->
             End("system_command", pre \o <<"system_not_implemented">>)
                /\ UNCHANGED ledgerVars
      [] OTHER ->
             End("else", pre \o <<"unknown_operation">>) /\ UNCHANGED ledgerVars

\* the low-confidence arm without its return
ManagerLowConfidenceFallsThrough == ManagerDispatch(pres, <<"low_confidence">>)

\* lines 251-253: handle_low_confidence_message, then return
ManagerLowConfidence ==
    End("low_confidence", <<"low_confidence">>) /\ UNCHANGED ledgerVars

\* parsed_data["operation_type"] on None without the check of line 242: the
\* TypeError ends in handle_processing_error
ManagerUnparseableUnchecked ==
    End("processing_error", <<"processing_error">>) /\ UNCHANGED ledgerVars

\* lines 242-244: handle_unparseable_message (lines 355-370), then return
ManagerUnparseable ==
    End("unparseable", <<"unparseable">>) /\ UNCHANGED ledgerVars

\* lines 237-269, with the result of parse_message(message.text, "manager")
AddBalanceDecide ==
    /\ hpc = "operation" /\ ppc = "ret"
    /\ intent' = pres
    /\ IF pres.t # "operation"
       THEN ManagerUnparseable
       ELSE IF LowConfidence(pres.confidence)
       THEN ManagerLowConfidence
       ELSE ManagerDispatch(pres, <<>>)
    /\ UNCHANGED <<msg, router_result, cmd_reply, extcalls, nmsg>>
    /\ UNCHANGED parseVars
    /\ UNCHANGED tasks

\* a slash command arrives
ReceiveCommand ==
    /\ hpc = "idle" /\ nmsg < MaxMsgs
    /\ \E role \in AllRoles, cmd \in {"resetbalance", "addbalance"} :
          msg' = [role |-> role, kind |-> cmd, text |-> <<"/", cmd>>, pid |-> 0,
                  file_size |-> 0]
    /\ hpc' = "slash"
    /\ nmsg' = nmsg + 1
    /\ UNCHANGED <<router_result, cmd_reply, intent, branch, answers, extcalls>>
    /\ UNCHANGED ledgerVars
    /\ UNCHANGED parseVars
    /\ UNCHANGED tasks

\* /resetbalance and /addbalance are registered for managers only (lines
\* 607-611, command_handlers.py:271); from any other role no handler of
\* these files takes the message.  reset_balance_command_handler, lines
\* 531-541, calls reset_balance_handler; addbalance_command sends a help text
SlashCommand ==
    /\ hpc = "slash"
    /\ IF msg.role # "manager"
       THEN End("unhandled", <<>>) /\ UNCHANGED ledgerVars
       ELSE IF msg.kind = "addbalance"
       THEN End("addbalance", <<"addbalance_help">>) /\ UNCHANGED ledgerVars
       ELSE reset_balance_handler(<<>>)
    /\ UNCHANGED <<msg, router_result, cmd_reply, intent, extcalls, nmsg>>
    /\ UNCHANGED parseVars
    /\ UNCHANGED tasks

(***************************************************************************)
(* handle_voice_message (src/handlers/voice_handler.py)                    *)
(***************************************************************************)
\* a voice message of a user of any role: the handler has no role filter
ReceiveVoice ==
    /\ hpc = "idle" /\ nmsg < MaxMsgs
    /\ \E role \in AllRoles :
          msg' = [role |-> role, kind |-> "voice", text |-> <<>>, pid |-> 0,
                  file_size |-> 0]
    /\ hpc' = "transcribe"
    /\ nmsg' = nmsg + 1
    /\ UNCHANGED <<router_result, cmd_reply, intent, branch, answers, extcalls>>
    /\ UNCHANGED ledgerVars
    /\ UNCHANGED parseVars
    /\ UNCHANGED tasks

\* lines 338-365 and 598-605: process_voice_message asks the service for
\* the text; without a text the handler replies and returns, else it sends
\* the text to parse_message with the sender's role
Transcribe ==
    /\ hpc = "transcribe"
    /\ extcalls' = extcalls + 1
    /\ \/ /\ End("none", <<"voice_unrecognized">>)
          /\ UNCHANGED <<msg, parseVars>>
       \/ \E transcription \in Transcriptions :
             /\ msg' = [msg EXCEPT !.text = transcription]
             /\ answers' = Append(answers, "recognized")
             /\ StartParse("universal", transcription, msg.role)
             /\ hpc' = "voice_operation"
             /\ UNCHANGED branch
    /\ UNCHANGED <<router_result, cmd_reply, intent, nmsg>>
    /\ UNCHANGED ledgerVars
    /\ UNCHANGED tasks

\* line 387 without the comparison of the role
VoiceAnyRoleMayAdd(user_role) == TRUE

\* line 387: if user_role == "manager"
VoiceMayAddBalance(user_role) == user_role = "manager"

NormText(v, default) ==
    IF Truthy(v) /\ Strip(v.s) # <<>> THEN v.s ELSE default

\* VoiceProcessor._handle_voice_payment_request, lines 59-137
handle_voice_payment_request(parsed_data) ==
    LET amount == parsed_data.amount
        platform == NormText(parsed_data.platform, <<"Ne ukazano">>)
        project == NormText(parsed_data.project, <<"Ne ukazan">>)
        payment_method == NormText(parsed_data.payment_method, <<"Ne ukazan">>)
    IN
    IF ~Truthy(amount) \/ LeZero(amount)
    THEN End("payment_request", <<"amount_error">>) /\ UNCHANGED ledgerVars
    ELSE IF amount.t = "num" /\ balance < amount.n
    THEN End("payment_request", <<"insufficient_balance">>) /\ UNCHANGED ledgerVars
    ELSE IF CreateOutcome(amount, platform, project) # "ok"
    THEN End("payment_request", <<"payment_error">>) /\ UNCHANGED ledgerVars
    ELSE /\ create_payment(amount, platform, project, payment_method[1])
         /\ UNCHANGED <<balance, history>>
         /\ End("payment_request", <<"payment_created">>)

\* lines 415-492: the topic is the first word list with a word in the
\* description or in the recognised text; handlers.financier has no
\* operations_handler and handlers.manager no summary_handler, so their
\* import raises ImportError, which line 591 catches and line 593 answers
\* with the recognised text and str(e)
voice_analytics_query(parsed_data, user_role, transcription) ==
    LET said(words) == \/ Contains(Lower(parsed_data.description), words)
                       \/ Contains(Lower(transcription), words)
        answer ==
            IF said({"balans"}) THEN
                 IF user_role = "manager" THEN "statistics"
                 ELSE IF user_role = "financier" THEN "balance"
                 ELSE "balance_denied"
            ELSE IF said({"statistika"}) THEN
                 IF user_role = "manager" THEN "statistics" ELSE "statistics_denied"
            ELSE IF said({"istoriya"}) THEN
                 IF user_role = "manager" THEN "ai_analytics"
                 ELSE IF user_role = "financier" THEN "analysis_error_text"
                 ELSE IF user_role = "marketer" THEN "my_payments"
                 ELSE "history_denied"
            ELSE IF said({"zayavki"}) THEN
                 IF user_role = "marketer" THEN "my_payments" ELSE "payments_denied"
            ELSE IF said({"svodka"}) THEN
                 IF user_role = "manager" THEN "analysis_error_text" ELSE "summary_denied"
            ELSE IF user_role = "manager" THEN "statistics"
            ELSE IF user_role = "financier" THEN "balance"
            ELSE IF user_role = "marketer" THEN "my_payments"
            ELSE "analytics_denied"
    IN End("analytics_query", <<answer>>) /\ UNCHANGED ledgerVars

\* lines 514-570: the same for a system command; handlers.marketer has no
\* examples_handler, formats_handler or natural_handler and
\* handlers.manager no reports_handler
voice_system_command(parsed_data, user_role, transcription) ==
    LET said(words) == \/ Contains(Lower(parsed_data.description), words)
                       \/ Contains(Lower(transcription), words)
        answer ==
            IF said({"pomosch"}) THEN "help"
            ELSE IF said({"start"}) THEN "start"
            ELSE IF said({"dashbord"}) THEN
                 IF user_role = "manager" THEN "dashboard" ELSE "dashboard_denied"
            ELSE IF said({"ai"}) THEN "ai_help"
            ELSE IF said({"primery"}) THEN
                 IF user_role = "marketer" THEN "analysis_error_text" ELSE "examples_denied"
            ELSE IF said({"format"}) THEN
                 IF user_role = "marketer" THEN "analysis_error_text" ELSE "formats_denied"
            ELSE IF said({"natural"}) THEN
                 IF user_role = "marketer" THEN "analysis_error_text" ELSE "natural_denied"
            ELSE IF said({"otchet", "svodka"}) THEN
                 IF user_role = "manager" THEN "analysis_error_text" ELSE "reports_denied"
            ELSE "help"
    IN End("system_command", <<answer>>) /\ UNCHANGED ledgerVars

\* lines 384-581: the arm of operation_type and the role checks inside
VoiceDispatch(parsed_data, user_role) ==
    CASE parsed_data.operation_type = "balance_add" ->
             IF VoiceMayAddBalance(user_role)
             THEN process_balance_add(parsed_data, <<>>)
             ELSE End("balance_add", <<"only_managers">>) /\ UNCHANGED ledgerVars
      [] parsed_data.operation_type = "balance_reset" ->
             IF user_role = "manager"
             THEN reset_balance_handler(<<>>)
             ELSE End("balance_reset", <<"only_managers">>) /\ UNCHANGED ledgerVars
      [] parsed_data.operation_type = "payment_request" ->
             IF user_role = "marketer"
             THEN handle_voice_payment_request(parsed_data)
             ELSE End("payment_request", <<"only_marketers">>) /\ UNCHANGED ledgerVars
      [] parsed_data.operation_type = "payment_confirm" ->
             IF user_role = "financier"
             THEN End("payment_confirm", <<"no_payment_id">>) /\ UNCHANGED ledgerVars
             ELSE End("payment_confirm", <<"only_financiers">>) /\ UNCHANGED ledgerVars
      [] parsed_data.operation_type = "analytics_query" ->
             voice_analytics_query(parsed_data, user_role, msg.text)
      [] parsed_data.operation_type = "ai_analytics" ->
             End("ai_analytics", <<"ai_analytics">>) /\ UNCHANGED ledgerVars
      [] parsed_data.operation_type = "system_command" ->
             voice_system_command(parsed_data, user_role, msg.text)
      [] OTHER ->
             End("else", <<"unknown_operation">>) /\ UNCHANGED ledgerVars

\* lines 365-589, with the result of parse_message(transcription, user_role)
VoiceDecide ==
    /\ hpc = "voice_operation" /\ ppc = "ret"
    /\ intent' = pres
    /\ IF pres.t # "operation"
       THEN End("not_understood", <<"not_understood">>) /\ UNCHANGED ledgerVars
       ELSE IF LowConfidence(pres.confidence)
       THEN End("low_confidence", <<"low_confidence">>) /\ UNCHANGED ledgerVars
       ELSE VoiceDispatch(pres, msg.role)
    /\ UNCHANGED <<msg, router_result, cmd_reply, extcalls, nmsg>>
    /\ UNCHANGED parseVars
    /\ UNCHANGED tasks

(***************************************************************************)
(* payment_request_handler (src/handlers/marketer.py)                      *)
(***************************************************************************)
\* MAX_FILE_SIZE in megabytes (src/utils/file_handler.py:18)
MAX_FILE_SIZE == 50

\* utils.file_handler.save_file for a file of file_size megabytes: "path"
\* when the file is fetched and stored, else "none".  The ValueError for a
\* file over MAX_FILE_SIZE is raised inside the try block of save_file, whose
\* `except Exception` takes it like a failed download and returns None
save_file(file_size, fetched) ==
    IF ~fetched THEN "none"
    ELSE IF file_size > MAX_FILE_SIZE THEN "none"
    ELSE "path"

\* a document or photo with a caption arrives from a marketer: message.text
\* is None, so smart_message_router returns None at its check of the text
\* (nlp_command_handler.py:99-101) without a request to the service, and the
\* handler gives the caption to the hybrid parser
ReceiveDocument ==
    /\ hpc = "idle" /\ nmsg < MaxMsgs
    /\ \E caption \in BotTexts, file_size \in {1, MAX_FILE_SIZE + 1} :
          /\ msg' = [role |-> "marketer", kind |-> "document", text |-> caption,
                     pid |-> 0, file_size |-> file_size]
          /\ StartParse("hybrid", caption, "")
    /\ hpc' = "payment"
    /\ nmsg' = nmsg + 1
    /\ UNCHANGED <<router_result, cmd_reply, intent, branch, answers, extcalls>>
    /\ UNCHANGED ledgerVars
    /\ UNCHANGED tasks

\* lines 36-128, with the result of the hybrid parser; whether the project
\* is in the projects table and whether Telegram delivers the file are the
\* environment's choice.  The handler has an arm for a ValueError of
\* save_file (lines 61-64) and one for any other exception (lines 65-67)
PaymentDecide ==
    /\ hpc = "payment" /\ ppc = "ret"
    /\ intent' = pres
    /\ IF pres.t # "payment"
       THEN End("unparsed", <<"payment_unparsed">>) /\ UNCHANGED ledgerVars
       ELSE \E project_exists \in BOOLEAN, fetched \in BOOLEAN :
               LET outcome == CreateOutcome(pres.amount, pres.service_name,
                                            pres.project_name)
                   file_path == IF msg.file_size > 0
                                THEN save_file(msg.file_size, fetched) ELSE "none"
                   pre == IF file_path = "error" THEN <<"file_not_saved">> ELSE <<>>
               IN
               IF file_path = "value_error"
               THEN End("payment", <<"size_error">>) /\ UNCHANGED ledgerVars
               ELSE IF ~project_exists
               THEN End("payment", pre \o <<"project_not_found">>)
                       /\ UNCHANGED ledgerVars
               ELSE IF outcome = "value_error"
               THEN End("payment", pre \o <<"value_error_text">>)
                       /\ UNCHANGED ledgerVars
               ELSE IF outcome = "error"
               THEN End("payment", pre \o <<"payment_error">>) /\ UNCHANGED ledgerVars
               ELSE /\ create_payment(pres.amount, pres.service_name,
                                      pres.project_name, pres.payment_method)
                    /\ UNCHANGED <<balance, history>>
                    /\ End("payment", pre \o <<"payment_created">>)
    /\ UNCHANGED <<msg, router_result, cmd_reply, extcalls, nmsg>>
    /\ UNCHANGED parseVars
    /\ UNCHANGED tasks

(***************************************************************************)
(* payment_confirmation_handler (src/handlers/financier.py)                *)
(***************************************************************************)
\* lines 34-140: the payment is looked up, must be pending, is marked paid
\* and its amount is subtracted from the balance
Confirm ==
    /\ hpc = "confirm"
    /\ IF msg.pid \notin 1..Len(payments)
       THEN End("confirm", <<"not_found">>) /\ UNCHANGED ledgerVars
       ELSE IF payments[msg.pid].status # "pending"
       THEN End("confirm", <<"already_processed">>) /\ UNCHANGED ledgerVars
       ELSE IF SubtractRaises(payments[msg.pid].amount, msg.pid)
       THEN /\ update_payment_status(msg.pid, "paid")
            /\ UNCHANGED <<balance, history>>
            /\ End("confirm", <<"invalid_id">>)
       ELSE /\ update_payment_status(msg.pid, "paid")
            /\ subtract_balance(payments[msg.pid].amount, msg.pid)
            /\ End("confirm", <<"confirmed">>)
    /\ UNCHANGED <<msg, router_result, cmd_reply, intent, extcalls, nmsg>>
    /\ UNCHANGED parseVars
    /\ UNCHANGED tasks

(***************************************************************************)
(* The bot: one message is handled at a time                               *)
(***************************************************************************)
\* the handler has returned
Done ==
    /\ hpc = "done"
    /\ msg' = NoMsg
    /\ hpc' = "idle"
    /\ router_result' = "none"
    /\ cmd_reply' = NoReply
    /\ intent' = NoneVal
    /\ branch' = "none"
    /\ answers' = <<>>
    /\ extcalls' = 0
    /\ ResetParse
    /\ UNCHANGED nmsg
    /\ UNCHANGED ledgerVars
    /\ UNCHANGED tasks

Init == ParseIdle /\ BotIdle

Next ==
    \/ ReceiveText
    \/ ReceiveConfirm
    \/ ReceiveCommand
    \/ ReceiveVoice
    \/ ReceiveDocument
    \/ CommandEnter
    \/ BotCommandReply
    \/ RouterCommand
    \/ RouterFalse
    \/ NlpCommandDispatch
    \/ UniversalEnter
    \/ BotUniversalReply
    \/ AddBalanceDecide
    \/ SlashCommand
    \/ Transcribe
    \/ VoiceDecide
    \/ HybridEnter
    \/ HybridDecide
    \/ BotHybridNlpReply
    \/ PaymentDecide
    \/ Confirm
    \/ Done

Spec == Init /\ [][Next]_vars

\* add_balance_handler with the event loop running: its await of
\* parse_message returns, as the request to the service gets an answer or
\* the client raises, and the handler then runs to its end
FairSpec ==
    /\ Spec
    /\ WF_vars(UniversalEnter)
    /\ WF_vars(BotUniversalReply)
    /\ WF_vars(AddBalanceDecide)

(***************************************************************************)
(* payment_confirmation_handler as tasks of one event loop, with           *)
(* PaymentDB.reject_payment (src/handlers/financier.py, src/db/database.py) *)
(***************************************************************************)
MaxPayments == 2

\* PaymentDB.get_payment: the row as it is read, None as status "none"
get_payment(payment_id) ==
    IF payment_id \in 1..Len(payments)
    THEN [status |-> payments[payment_id].status,
          amount |-> payments[payment_id].amount]
    ELSE NoTask.payment

\* PaymentDB.reject_payment: UPDATE ... WHERE id = ? AND status = 'pending'
reject_payment(payment_id) ==
    IF get_payment(payment_id).status = "pending"
    THEN update_payment_status(payment_id, "rejected")
    ELSE UNCHANGED payments

\* a request of a marketer is stored, marketer.py:89-98
StorePayment ==
    /\ Len(payments) < MaxPayments
    /\ \E amount \in {1, 2} :
          create_payment(JNum(amount), <<"Google">>, <<"Alpha">>, "crypto")
    /\ UNCHANGED <<balance, history, tasks>>
    /\ UNCHANGED <<parseVars, handlerVars>>

\* financier.py:50-67: a task takes the id of its message, awaits
\* get_payment and returns with a reply unless the row it read is pending
TaskGetPayment ==
    /\ \E k \in Tasks, payment_id \in 1..MaxPayments :
          /\ tasks[k].pc = "idle"
          /\ IF get_payment(payment_id).status # "pending"
             THEN UNCHANGED tasks
             ELSE tasks' = [tasks EXCEPT ![k] =
                               [pc |-> "update", payment_id |-> payment_id,
                                payment |-> get_payment(payment_id)]]
    /\ UNCHANGED ledgerVars
    /\ UNCHANGED <<parseVars, handlerVars>>

\* financier.py:91-96: await update_payment_status(payment_id, "paid"), an
\* UPDATE with no condition on the status
TaskUpdateStatus ==
    /\ \E k \in Tasks :
          /\ tasks[k].pc = "update"
          /\ update_payment_status(tasks[k].payment_id, "paid")
          /\ tasks' = [tasks EXCEPT ![k].pc = "subtract"]
    /\ UNCHANGED <<balance, history>>
    /\ UNCHANGED <<parseVars, handlerVars>>

\* financier.py:99-103: await subtract_balance with the amount of the row
\* that was read; the task then replies and returns
TaskSubtract ==
    /\ \E k \in Tasks :
          /\ tasks[k].pc = "subtract"
          /\ IF SubtractRaises(tasks[k].payment.amount, tasks[k].payment_id)
             THEN UNCHANGED <<balance, history>>
             ELSE subtract_balance(tasks[k].payment.amount, tasks[k].payment_id)
          /\ tasks' = [tasks EXCEPT ![k] = NoTask]
    /\ UNCHANGED payments
    /\ UNCHANGED <<parseVars, handlerVars>>

\* PaymentDB.reject_payment is called for a payment
RejectPayment ==
    /\ \E payment_id \in 1..MaxPayments : reject_payment(payment_id)
    /\ UNCHANGED <<balance, history, tasks>>
    /\ UNCHANGED <<parseVars, handlerVars>>

NextConfirm ==
    \/ StorePayment
    \/ TaskGetPayment
    \/ TaskUpdateStatus
    \/ TaskSubtract
    \/ RejectPayment

SpecConfirm == Init /\ [][NextConfirm]_vars

(***************************************************************************)
(* BalanceDB called directly, one call after another                       *)
(***************************************************************************)
MaxCalls == 4

\* the reset rows written with the balance left as it was
reset_balance_to_zero_KeepBalance ==
    IF balance = 0 THEN UNCHANGED <<balance, history>>
    ELSE /\ balance' = balance
         /\ history' = Append(history, HistoryRow("reset", balance, 0, 0))

\* BalanceDB.reset_balance_to_zero: nothing for a balance of 0, else the
\* balance is set to 0 and a reset row holds the balance that was there
reset_balance_to_zero ==
    IF balance = 0 THEN UNCHANGED <<balance, history>>
    ELSE /\ balance' = 0
         /\ history' = Append(history, HistoryRow("reset", balance, 0, 0))

\* the amount of the balance_history row written with a transactions row:
\* amount for income, -amount for expense, -current_balance for reset
BalanceHistoryAmount(row) ==
    IF row.transaction_type = "income" THEN row.amount ELSE 0 - row.amount

\* add_balance(amount, user_id) is called; it raises for amount <= 0, for
\* user_id <= 0 and for NaN
AddBalanceCall ==
    /\ Len(history) < MaxCalls
    /\ \E amount \in {JNum(0), JNum(1), JNum(2), JNaN}, user_id \in {0, UserId("manager")} :
          IF AddBalanceRaises(amount) \/ user_id <= 0
          THEN UNCHANGED <<balance, history>>
          ELSE add_balance(amount, user_id)
    /\ UNCHANGED <<payments, tasks>>
    /\ UNCHANGED <<parseVars, handlerVars>>

\* subtract_balance(amount, payment_id) is called
SubtractBalanceCall ==
    /\ Len(history) < MaxCalls
    /\ \E amount \in {-1, 0, 1, 2}, payment_id \in {-1, 0, 1} :
          IF SubtractRaises(amount, payment_id)
          THEN UNCHANGED <<balance, history>>
          ELSE subtract_balance(amount, payment_id)
    /\ UNCHANGED <<payments, tasks>>
    /\ UNCHANGED <<parseVars, handlerVars>>

\* reset_balance_to_zero() is called
ResetBalanceCall ==
    /\ Len(history) < MaxCalls
    /\ reset_balance_to_zero
    /\ UNCHANGED <<payments, tasks>>
    /\ UNCHANGED <<parseVars, handlerVars>>

NextLedger ==
    \/ AddBalanceCall
    \/ SubtractBalanceCall
    \/ ResetBalanceCall

SpecLedger == Init /\ [][NextLedger]_vars

(***************************************************************************)
(* Properties of the parse entry points (SpecParse)                        *)
(***************************************************************************)
\* C1: in the hybrid parser, when the regex parser returned a result that
\* passes validate_payment_data, that result is what the call returns and
\* the service is never asked during the call.
C1_RegexShortCircuit ==
    (entry = "hybrid" /\ regex_result.t = "payment" /\ validate_payment_data(regex_result))
        => /\ calls = 0
           /\ ppc # "await_nlp"
           /\ ppc = "ret" => pres = regex_result

C1_Witness ==
    /\ entry = "hybrid" /\ ppc = "ret"
    /\ regex_result.t = "payment"
    /\ pres = regex_result
    /\ calls = 0

\* C2: whatever the text and whatever the service does (error, no JSON,
\* JSON that is no object or breaks the schema), each entry point returns
\* None or a well-formed intent; no exception reaches the caller.
C2_ReturnsIntentOrNone ==
    ppc = "ret" =>
        /\ pres.t \in {"none", "payment", "operation", "command"}
        /\ pres.t = "payment" =>
              /\ entry \in {"hybrid", "regex"}
              /\ pres.service_name # <<>> /\ pres.project_name # <<>>
              /\ pres.payment_method \in ValidMethods
        /\ pres.t = "operation" =>
              /\ entry = "universal"
              /\ pres.operation_type \in ValidOperations
              /\ pres.confidence.t \in {"num", "nan"}
        /\ pres.t = "command" =>
              /\ entry = "command"
              /\ pres.command \in ValidCommands
              /\ pres.confidence.t \in {"num", "nan"}

C2_Witness ==
    /\ entry = "command" /\ ppc = "ret"
    /\ reply.kind = "dict"
    /\ reply.data.command = JStr(<<"help">>)
    /\ reply.data.confidence.t = "str"
    /\ pres = NoneVal

\* C3: every result of the hybrid parser that is not None has a service
\* name and a project name that are not blank, an amount above zero and a
\* payment method among crypto, phone, account and file.
C3_AllFieldsValid ==
    (entry = "hybrid" /\ ppc = "ret" /\ pres.t = "payment") =>
        /\ Strip(pres.service_name) # <<>>
        /\ pres.amount.t = "num" /\ pres.amount.n > 0
        /\ Strip(pres.project_name) # <<>>
        /\ pres.payment_method \in ValidMethods

\* C4: the regex parser returns a record only when all four extractors
\* found a value and each value is valid; when one of them found nothing
\* the result is None.
C4_FailClosed ==
    (entry = "regex" /\ ppc = "ret") =>
        LET t == Strip(ptext)
            missing == \/ ~extract_service_name(t).found
                       \/ ~extract_amount(t).found
                       \/ ~extract_project_name(t).found
                       \/ extract_payment_method(t).method = "none"
        IN
        /\ pres.t \in {"none", "payment"}
        /\ missing => pres = NoneVal
        /\ pres.t = "payment" =>
              /\ ~missing
              /\ pres.service_name = extract_service_name(t).value
              /\ pres.service_name # <<>>
              /\ pres.amount.t = "num"
              /\ pres.amount.n = extract_amount(t).value
              /\ pres.amount.n > 0
              /\ pres.project_name = extract_project_name(t).value
              /\ pres.project_name # <<>>
              /\ pres.payment_method = extract_payment_method(t).method
              /\ pres.payment_method \in ValidMethods

\* three extractors found a value, the project extractor did not
C4_Witness ==
    /\ entry = "regex" /\ ppc = "ret"
    /\ extract_service_name(Strip(ptext)).found
    /\ extract_amount(Strip(ptext)).found
    /\ extract_amount(Strip(ptext)).value > 0
    /\ ~extract_project_name(Strip(ptext)).found
    /\ extract_payment_method(Strip(ptext)).method = "crypto"
    /\ pres = NoneVal

NonPositive(v) == v.t = "num" /\ v.n <= 0

AmountChecked ==
    \/ entry = "hybrid"
    \/ /\ entry = "universal"
       /\ IsWord(reply.data.operation_type, {"balance_add", "payment_request"})

C6_SingleAttempt ==
    entry = "hybrid" =>
        /\ calls <= 1
        /\ (ppc = "ret" /\ ~Blank(ptext)
              /\ ~(regex_result.t = "payment" /\ validate_payment_data(regex_result)))
               => /\ calls = 1
                  /\ (reply.kind # "dict" \/ ~NlpValidate(reply.data)) => pres = NoneVal

C6_Witness ==
    /\ entry = "hybrid" /\ ppc = "ret"
    /\ regex_result = NoneVal
    /\ calls = 1
    /\ reply.kind = "error"
    /\ pres = NoneVal

(***************************************************************************)
(* Properties of the handlers (Spec)                                       *)
(***************************************************************************)
ManagerArms == {"balance_add", "balance_reset", "analytics_query", "system_command"}

VoiceArms == ManagerArms \cup {"payment_request", "payment_confirm", "ai_analytics"}

ArmOf(op, arms) == IF op \in arms THEN op ELSE "else"

\* add_balance_handler or handle_voice_message has returned, having
\* obtained an operation intent
OperationHandled ==
    /\ hpc = "done"
    /\ intent.t = "operation"
    /\ msg.kind = "voice" \/ (msg.kind = "text" /\ msg.role = "manager")

\* C7: in add_balance_handler and in handle_voice_message an operation
\* intent with confidence >= 0.7, 0.7 included, runs the arm of its
\* operation_type; with confidence below 0.7 no arm runs and the reply is
\* the request to rephrase.
C7_OperationGate ==
    OperationHandled =>
        /\ (intent.confidence.t = "num" /\ intent.confidence.n >= 70) =>
              branch = ArmOf(intent.operation_type,
                             IF msg.kind = "voice" THEN VoiceArms ELSE ManagerArms)
        /\ (intent.confidence.t = "num" /\ intent.confidence.n < 70) =>
              /\ branch = "low_confidence"
              /\ answers[Len(answers)] = "low_confidence"

C7_Witness ==
    /\ hpc = "done"
    /\ msg.kind = "text" /\ msg.role = "manager"
    /\ intent.t = "operation"
    /\ intent.operation_type = "balance_add"
    /\ intent.confidence = JNum(70)
    /\ branch = "balance_add"
    /\ answers = <<"balance_added">>

\* the service named one of the four commands, with a numeric confidence
Guessed(r) ==
    /\ r.kind = "dict"
    /\ IsWord(r.data.command, ValidCommands)
    /\ r.data.confidence.t = "num"

Permitted(r, role) == check_command_permission(r.data.command.s[1], role)

LowConfidenceAtGate ==
    /\ hpc \in {"operation", "voice_operation"}
    /\ ppc = "ret"
    /\ pres.t = "operation"
    /\ pres.confidence.t = "num"
    /\ pres.confidence.n < 70

\* C9: with an operation intent of confidence below 0.7 the handler sends
\* the request to rephrase and returns: the balance, the history and the
\* payments stay as they were, no further request goes to the service, and
\* the only step left for the message is the end of its handling.
C9_LowConfidenceTerminal ==
    [][ /\ LowConfidenceAtGate =>
              /\ hpc' = "done"
              /\ branch' = "low_confidence"
              /\ answers' = Append(answers, "low_confidence")
              /\ UNCHANGED ledgerVars
              /\ ExtCalls' = ExtCalls
        /\ (hpc = "done" /\ branch = "low_confidence") =>
              /\ hpc' = "idle"
              /\ UNCHANGED ledgerVars
              /\ ExtCalls' = 0 ]_vars

C9_Witness ==
    /\ hpc = "done"
    /\ branch = "low_confidence"
    /\ msg.kind = "text"
    /\ intent.t = "operation"
    /\ intent.operation_type = "balance_add"
    /\ intent.confidence = JNum(69)
    /\ intent.amount = JNum(2)
    /\ balance = 1
    /\ Len(history) = 1

\* the step adds the row of a reset to the history
ResetRecorded ==
    /\ Len(history') = Len(history) + 1
    /\ history'[Len(history')].payment_id = 0

\* C10: whatever messages arrive and whatever the service answers, a step
\* raises the balance or records a reset only while the message of a
\* manager is handled; a balance_add or balance_reset intent obtained for
\* another sender leaves the balance and the history as they were.
C10_ManagerOnlyBalance ==
    [][ /\ balance' > balance => msg.role = "manager"
        /\ ResetRecorded => msg.role = "manager"
        /\ (hpc = "voice_operation" /\ ppc = "ret" /\ pres.t = "operation"
              /\ pres.operation_type \in {"balance_add", "balance_reset"}
              /\ msg.role # "manager") => UNCHANGED <<balance, history>> ]_vars

C10_Witness ==
    /\ hpc = "done"
    /\ msg.kind = "voice" /\ msg.role = "financier"
    /\ intent.t = "operation"
    /\ intent.operation_type = "balance_add"
    /\ intent.confidence = JNum(70)
    /\ intent.amount = JNum(2)
    /\ answers = <<"recognized", "only_managers">>
    /\ balance = 1

\* add_balance_handler has passed the router and is at or after its call of
\* parse_message
ManagerParsing ==
    /\ msg.kind = "text" /\ msg.role = "manager"
    /\ hpc = "operation"

ManagerEnded ==
    /\ msg.kind = "text" /\ msg.role = "manager"
    /\ router_result = "false"
    /\ hpc = "done"

\* the terminal state of the router state machine that an arm stands for
RouterState(b) ==
    CASE b = "unparseable" -> "Rejected"
      [] b = "low_confidence" -> "LowConfidence"
      [] b \in ManagerArms \cup {"else"} -> "Routed"
      [] OTHER -> "none"

\* C11: every text of a manager that reaches parse_message ends in one of
\* the terminal states Rejected, LowConfidence and Routed; it is Rejected
\* exactly when parse_message gave no intent, and then the one reply is the
\* static format help, no arm of an operation runs and the ledger stays as
\* it was.
C11_RouterTerminal ==
    /\ ManagerParsing ~> ManagerEnded
    /\ [](ManagerEnded =>
            /\ RouterState(branch) \in {"Rejected", "LowConfidence", "Routed"}
            /\ RouterState(branch) = "Rejected" <=> intent.t # "operation"
            /\ RouterState(branch) = "Rejected" => answers = <<"unparseable">>)
    /\ [][ (ManagerParsing /\ ppc = "ret" /\ pres.t # "operation") =>
              /\ ManagerEnded'
              /\ branch' = "unparseable"
              /\ UNCHANGED ledgerVars ]_vars

\* the service failed and the manager got the format help
C11_Witness ==
    /\ ManagerEnded
    /\ reply.kind = "error"
    /\ intent = NoneVal
    /\ branch = "unparseable"
    /\ answers = <<"unparseable">>
    /\ balance = 1

\* the replies that carry str(e) of an exception: marketer.py:119-122 and
\* voice_handler.py:593-594
ExceptionTextReplies == {"value_error_text", "analysis_error_text"}

\* C12: whatever fails while a message is handled, no reply to the user
\* carries the text of the exception that was raised.
C12_StaticReplies ==
    \A i \in 1..Len(answers) : answers[i] \notin ExceptionTextReplies

(***************************************************************************)
(* Properties of the normalizers and extractors (SpecParse)                *)
(***************************************************************************)
\* C13: every intent that parse_message returns has one of the six
\* operation types and a confidence that is a number from 0 to 1, and a
\* payload with another type, or with a confidence that is missing, no
\* number or out of that range, gives None.
C13_TagAndConfidence ==
    (entry = "universal" /\ ppc = "ret") =>
        /\ pres.t = "operation" =>
              /\ pres.operation_type \in ValidOperations
              /\ pres.confidence.t = "num"
              /\ pres.confidence.n \in 0..100
        /\ (reply.kind = "dict"
              /\ (\/ ~IsWord(reply.data.operation_type, ValidOperations)
                  \/ reply.data.confidence.t # "num"
                  \/ reply.data.confidence.n \notin 0..100)) => pres = NoneVal

OptionalFields == {"platform", "project", "payment_method", "payment_details"}

\* C14: in an intent of parse_message each of platform, project,
\* payment_method and payment_details is None or a string that is not empty
\* and has no blank at either end; a value that is blank after stripping
\* has become None.
C14_OptionalTrimmed ==
    (entry = "universal" /\ ppc = "ret" /\ pres.t = "operation") =>
        \A f \in OptionalFields :
            \/ pres[f] = JNull
            \/ /\ pres[f].t = "str"
               /\ pres[f].s # <<>>
               /\ Strip(pres[f].s) = pres[f].s

\* the result came from the payload of the service
FromPayload ==
    /\ ppc = "ret"
    /\ reply.kind = "dict"
    /\ \/ entry = "universal" /\ pres.t = "operation"
       \/ entry = "hybrid" /\ pres.t = "payment"

\* C15: a field that the payload leaves out or gives as null is None in
\* the result of the normalizer, the empty string for description and
\* payment_details of a payment; no value appears that the payload did not
\* hold.
C15_NothingInvented ==
    FromPayload =>
        IF entry = "universal"
        THEN /\ \A f \in OptionalFields \cup {"amount"} :
                   IsMissing(reply.data[f]) => pres[f] = JNull
             /\ IsMissing(reply.data.description) => pres.description = <<>>
        ELSE IsMissing(reply.data.payment_details) => pres.payment_details = <<>>

\* the intent as the dict it is, given to the validator again
AsOperationPayload(r) ==
    [operation_type |-> JStr(<<r.operation_type>>), confidence |-> r.confidence,
     amount |-> r.amount, description |-> JStr(r.description),
     platform |-> r.platform, project |-> r.project,
     payment_method |-> r.payment_method, payment_details |-> r.payment_details]

AsPaymentPayload(r) ==
    [service_name |-> JStr(r.service_name), amount |-> r.amount,
     project_name |-> JStr(r.project_name),
     payment_method |-> JStr(<<r.payment_method>>),
     payment_details |-> JStr(r.payment_details)]

\* C16: the result of a normalizer, validated and normalized once more, is
\* accepted and comes out the same in every field, for the intents of
\* parse_message and for the payments of the NLP parser with its mapping
\* of service names.
C16_Idempotent ==
    FromPayload =>
        IF entry = "universal"
        THEN UTry([kind |-> "dict", data |-> AsOperationPayload(pres)]) = pres
        ELSE NlpTry([kind |-> "dict", data |-> AsPaymentPayload(pres)]) = pres

\* the text of a finished call of PaymentParser.parse_payment_message
RegexReturned == entry = "regex" /\ ppc = "ret"

\* a string of 10 or more hexadecimal characters, with or without 0x
HexString(tok) == tok \in {"hex12", "hex20", "0xhex16"}

\* a run of digits that looks like a phone number
PhoneString(tok) == tok \in {"+phone", "digits10"}

WalletAt(t, i) ==
    \/ t[i] \in {"0xhex16", "hex20"}
    \/ /\ i > 1
       /\ t[i - 1] \in {"kripto:", "koshelek:", "adres:"}
       /\ HexString(t[i])

AmountLabels == {"na", "summu", "summa:"}

\* C18: in a text with the amount 1 behind a label (na summu, na, summa:)
\* and the amount 2 with a currency sign and no label, the amount extractor
\* returns 1, whichever of the two comes first.
C18_LabelledWins ==
    (/\ RegexReturned
     /\ \E i \in 1..(Len(ptext) - 2) :
           ptext[i] \in AmountLabels /\ ptext[i + 1] = "1" /\ ptext[i + 2] = "$"
     /\ \E j \in 1..(Len(ptext) - 1) :
           /\ ptext[j] = "2" /\ ptext[j + 1] = "$"
           /\ j > 1 => ptext[j - 1] \notin AmountLabels)
        => extract_amount(Strip(ptext)) = Found(1)

ServiceEntries == {"hybrid", "universal", "command"}

\* C19: parse_payment_message of the hybrid parser, parse_message and
\* parse_command, called with the empty string, send nothing to the service
\* and return None.
C19_EmptyText ==
    (entry \in ServiceEntries /\ ptext = <<>>) =>
        /\ calls = 0
        /\ ppc \in {"start", "ret"}
        /\ ppc = "ret" => pres = NoneVal

\* parse_command has returned from the empty string
C19_Witness ==
    /\ entry = "command" /\ ptext = <<>>
    /\ ppc = "ret" /\ pres = NoneVal /\ calls = 0

\* C20: a text whose only amount is a negative one, a minus sign and the
\* digit 1 before the currency sign, gives no intent from
\* PaymentParser.parse_payment_message.
C20_NegativeAmount ==
    (/\ RegexReturned
     /\ \E i \in 1..(Len(ptext) - 1) : ptext[i] = "-1" /\ ptext[i + 1] = "$")
        => pres = NoneVal

\* C21: parse_command, called by a handler with the sender's role, returns
\* a command only when the role is permitted for it, and the handler of
\* balance or stats never runs for a role that is not permitted: neither for
\* a marketer, nor stats for a financier.
C21_CommandPermissions ==
    /\ (hpc # "idle" /\ entry = "command" /\ ppc = "ret" /\ pres.t = "command") =>
          /\ prole = msg.role
          /\ check_command_permission(pres.command, prole)
    /\ (hpc = "done" /\ branch \in ValidCommands) =>
          /\ check_command_permission(branch, msg.role)
          /\ \A i \in 1..Len(answers) :
                answers[i] \notin {"no_access_balance", "no_access_stats"}

\* the balance command has run for a financier
C21_Witness ==
    /\ hpc = "done" /\ branch = "balance"
    /\ msg.role = "financier"
    /\ answers = <<"balance">>

(***************************************************************************)
(* Properties of the ledger under concurrent handlers (SpecConfirm)        *)
(***************************************************************************)
\* the expense rows that transactions holds for a payment
Expenses(payment_id) ==
    {i \in 1..Len(history) :
        /\ history[i].transaction_type = "expense"
        /\ history[i].payment_id = payment_id}

\* C22: for every payment, however the executions of
\* payment_confirmation_handler interleave, transactions holds at most one
\* expense row with its id.
C22_SubtractedOnce ==
    \A payment_id \in 1..Len(payments) : Cardinality(Expenses(payment_id)) <= 1

\* C23: a payment is created pending, its status is pending, paid or
\* rejected, and a status that is paid or rejected is the same after every
\* step of payment_confirmation_handler and of reject_payment.
C23_StatusMonotone ==
    [][/\ \A payment_id \in 1..Len(payments) :
            /\ payments'[payment_id].status \in {"pending", "paid", "rejected"}
            /\ payments[payment_id].status # "pending" =>
                  payments'[payment_id].status = payments[payment_id].status
       /\ \A payment_id \in (Len(payments) + 1)..Len(payments') :
            payments'[payment_id].status = "pending"]_vars

(***************************************************************************)
(* Properties of the handlers and the ledger (Spec)                        *)
(***************************************************************************)
\* C24: when reset_balance_handler has run to its end for a manager, from a
\* text, a voice message or /resetbalance, the balance is 0, whatever it was
\* before, a negative balance included.
C24_ResetReachesZero ==
    (hpc = "done" /\ branch = "balance_reset" /\ msg.role = "manager") => balance = 0

\* C25: when smart_message_router has returned True for a message, the
\* handler of a command has run for it and a reply has been sent, whatever
\* the service answered to each of the requests made for the message.
C25_RouterTrueDispatched ==
    (hpc = "done" /\ router_result = "true") =>
        /\ branch \in ValidCommands
        /\ answers # <<>>

\* C26: when payment_request_handler has ended for a marketer's text that
\* the regex parser turns into a valid payment, and the project was not
\* reported as missing, one payment has been created, pending and with the
\* fields the regex parser extracted, whatever the service answered.
C26_RegexPaymentCreated ==
    LET r == RegexParse(msg.text) IN
    (/\ hpc = "done"
     /\ msg.role = "marketer" /\ msg.kind = "text"
     /\ r.t = "payment" /\ validate_payment_data(r)
     /\ \A i \in 1..Len(answers) : answers[i] # "project_not_found")
        => /\ answers = <<"payment_created">>
           /\ payments # <<>>
           /\ payments[Len(payments)] =
                 PaymentRow(r.amount.n, r.service_name, r.project_name, r.payment_method)

\* C27: every row of payments, stored by the text handler of a marketer or
\* by the voice handler, has a payment_method that is crypto, phone, account
\* or file.
C27_StoredMethodValid ==
    \A payment_id \in 1..Len(payments) :
        payments[payment_id].payment_method \in ValidMethods

(***************************************************************************)
(* Properties of BalanceDB (SpecLedger)                                    *)
(***************************************************************************)
RECURSIVE SumOfHistory(_)
SumOfHistory(rows) ==
    IF rows = <<>> THEN 0
    ELSE BalanceHistoryAmount(Head(rows)) + SumOfHistory(Tail(rows))

\* C28: from a balance of 0 and no history, after any calls of add_balance,
\* subtract_balance and reset_balance_to_zero made one after another, those
\* that raise included, current_balance is the sum of the amounts in
\* balance_history.
C28_LedgerConservation == balance = SumOfHistory(history)

\* a payment took the balance below zero, a reset brought it to 0 and
\* money was added after it
C28_Witness ==
    /\ Len(history) = 3
    /\ history[1].transaction_type = "expense"
    /\ history[2] = HistoryRow("reset", 0 - history[1].amount, 0, 0)
    /\ history[3].transaction_type = "income"
    /\ balance = history[3].amount

\* C29: when payment_request_handler has ended for a payment request of a
\* marketer with an attachment over MAX_FILE_SIZE, the one reply is the size
\* error and no payment has been created.
C29_OversizedRefused ==
    (/\ hpc = "done"
     /\ msg.role = "marketer" /\ msg.file_size > MAX_FILE_SIZE
     /\ intent.t = "payment")
        => answers = <<"size_error">>


====
